---- MODULE Spec2Model ----
(***************************************************************************)
(* A model of reconcile.py: the n-gram tokenizer, the manufacturer         *)
(* normalizer, the Reconciler (frequency tables, isCamera, candidate       *)
(* scoring, reconcile) and pruneByCost.                                    *)
(*                                                                         *)
(* Strings are TLA+ strings, taken apart with Len, SubSeq and \o.  Floats  *)
(* are modelled by exact integer arithmetic on scaled values: costs in     *)
(* quarters of a USD, isCamera confidences in tenths, logarithms in        *)
(* thousandths (table LnMilli), scores in millionths.                      *)
(***************************************************************************)
EXTENDS Integers, Sequences, FiniteSets, TLC

VARIABLES
    \* ngrams(n, bits): the generator's arguments, loop index and output
    ng_n, ng_bits, ng_i, ng_out, ng_skipped, ng_pc,
    \* manufacturerNormalizer: its two arguments, the product manufacturers
    \* the outer loop has still to visit, the listing_manufacturers set, the
    \* results dict and the position in the function
    mn_listing_arg, mn_product_arg, mn_todo, mn_listing_manufacturers,
    mn_results, mn_pc,
    \* pruneByCost: the match_results dict it mutates, its two parameters,
    \* the dict as it was when the latest call began, the number of calls
    match_results, sanity_factor, sd_threshold, pr_before, pr_calls,
    \* the Reconciler: its constructor's arguments and the attributes it
    \* builds, reconcile's parameter, loop index and misses list, and the
    \* position in main
    listings, products, manufacturer_map, word_frequency, list_word_score,
    words_by_manufacturer, score_threshold, idx, misses, pc,
    \* the order in which the set of product manufacturers was iterated, the
    \* keys findCandidateProducts and reconcile set on each listing dict,
    \* and what findCandidateProducts returned for each listing
    mn_order, annotations, candidates

ngVars == <<ng_n, ng_bits, ng_i, ng_out, ng_skipped, ng_pc>>

mnVars == <<mn_listing_arg, mn_product_arg, mn_todo, mn_listing_manufacturers,
            mn_results, mn_pc>>

prVars == <<match_results, sanity_factor, sd_threshold, pr_before, pr_calls>>

rcVars == <<listings, products, manufacturer_map, word_frequency, list_word_score,
            words_by_manufacturer, score_threshold, idx, misses, pc,
            mn_order, annotations, candidates>>

vars == <<ngVars, mnVars, prVars, rcVars>>

----------------------------------------------------------------------------
(* Bounds *)

MaxTitleLen == 5
MaxN == 3
MaxProductManus == 3
MaxPruneListings == 4
MaxPruneCalls == 2
MaxListings == 2

----------------------------------------------------------------------------
(* Python's str operations, on TLA+ strings *)

Max(a, b) == IF a >= b THEN a ELSE b

CharAt(s, i) == SubSeq(s, i, i)

LowerCase == "abcdefghijklmnopqrstuvwxyz"
UpperCase == "ABCDEFGHIJKLMNOPQRSTUVWXYZ"

UpperOf ==
    [c \in {CharAt(LowerCase, k) : k \in 1..Len(LowerCase)} |->
        CharAt(UpperCase, CHOOSE k \in 1..Len(LowerCase) : CharAt(LowerCase, k) = c)]

\* str.upper() on one character
upperChar(c) == IF c \in DOMAIN UpperOf THEN UpperOf[c] ELSE c

RECURSIVE upper(_)
upper(s) == IF Len(s) = 0 THEN "" ELSE upperChar(CharAt(s, 1)) \o upper(Tail(s))

\* str.replace(ch, ''): every occurrence of the one-character string ch removed
RECURSIVE replaceWithEmpty(_, _)
replaceWithEmpty(s, ch) ==
    IF Len(s) = 0 THEN ""
    ELSE (IF CharAt(s, 1) = ch THEN "" ELSE CharAt(s, 1)) \o replaceWithEmpty(Tail(s), ch)

isSpace(c) == c = " "

\* str.strip(): leading and trailing whitespace removed
RECURSIVE lstrip(_)
lstrip(s) == IF Len(s) > 0 /\ isSpace(CharAt(s, 1)) THEN lstrip(Tail(s)) ELSE s

RECURSIVE rstrip(_)
rstrip(s) ==
    IF Len(s) > 0 /\ isSpace(CharAt(s, Len(s)))
    THEN rstrip(SubSeq(s, 1, Len(s) - 1)) ELSE s

strip(s) == rstrip(lstrip(s))

\* str.split(): the maximal runs of non-whitespace characters, in order
RECURSIVE splitFrom(_, _, _)
splitFrom(s, cur, acc) ==
    IF Len(s) = 0 THEN (IF cur = "" THEN acc ELSE Append(acc, cur))
    ELSE IF isSpace(CharAt(s, 1))
         THEN splitFrom(Tail(s), "", IF cur = "" THEN acc ELSE Append(acc, cur))
         ELSE splitFrom(Tail(s), cur \o CharAt(s, 1), acc)

split(s) == splitFrom(s, "", <<>>)

\* ''.join(bits)
RECURSIVE join(_)
join(bits) == IF bits = <<>> THEN "" ELSE Head(bits) \o join(Tail(bits))

\* str.startswith
startswith(s, prefix) ==
    Len(prefix) <= Len(s) /\ SubSeq(s, 1, Len(prefix)) = prefix

\* `sub in s` on strings
contains(s, sub) ==
    \E k \in 1..(Len(s) - Len(sub) + 1) : SubSeq(s, k, k + Len(sub) - 1) = sub

----------------------------------------------------------------------------
(* normalize and ngrams *)

normalize(s) ==
    replaceWithEmpty(replaceWithEmpty(replaceWithEmpty(upper(s), " "), "_"), "-")

\* the xrange bound of ngrams' loop
ngramsRangeShort(bits, n) == Len(bits) - n

ngramsRange(bits, n) == Len(bits) - n + 1

\* bits[i:i+n] for a 0-based i
slice(bits, i, n) == SubSeq(bits, i + 1, i + n)

\* list(ngrams(n, bits)): the generator run to exhaustion
RECURSIVE ngramsFrom(_, _, _)
ngramsFrom(n, bits, i) ==
    IF i >= ngramsRange(bits, n) THEN <<>>
    ELSE LET result == normalize(join(slice(bits, i, n)))
         IN  (IF strip(result) = "" THEN <<>> ELSE <<result>>)
             \o ngramsFrom(n, bits, i + 1)

ngrams(n, bits) == ngramsFrom(n, bits, 0)

EmptyMap == [k \in {} |-> ""]

\* parked values of the manufacturerNormalizer variables
MnIdle ==
    /\ mn_listing_arg = {}
    /\ mn_product_arg = {}
    /\ mn_todo = {}
    /\ mn_listing_manufacturers = {}
    /\ mn_results = EmptyMap
    /\ mn_pc = "idle"

\* parked values of the ngrams variables
NgIdle ==
    /\ ng_n = 0
    /\ ng_bits = <<>>
    /\ ng_i = 0
    /\ ng_out = <<>>
    /\ ng_skipped = 0
    /\ ng_pc = "idle"

\* parked values of the pruneByCost variables
PrIdle ==
    /\ match_results = EmptyMap
    /\ sanity_factor = <<0, 1>>
    /\ sd_threshold = <<0, 1>>
    /\ pr_before = EmptyMap
    /\ pr_calls = 0

\* parked values of the Reconciler variables
RcIdle ==
    /\ listings = <<>>
    /\ products = <<>>
    /\ manufacturer_map = EmptyMap
    /\ word_frequency = EmptyMap
    /\ list_word_score = EmptyMap
    /\ words_by_manufacturer = EmptyMap
    /\ score_threshold = 0
    /\ idx = 0
    /\ misses = <<>>
    /\ pc = "idle"
    /\ mn_order = <<>>
    /\ annotations = <<>>
    /\ candidates = <<>>

Alphabet == {"a", "B", "-", "_", " "}

RECURSIVE Strings(_)
Strings(k) ==
    IF k = 0 THEN {""}
    ELSE LET S == Strings(k - 1) IN S \cup {s \o c : s \in S, c \in Alphabet}

NgInit ==
    /\ ng_n \in 0..MaxN
    /\ \E title \in Strings(MaxTitleLen) : ng_bits = split(title)
    /\ ng_i = 0
    /\ ng_out = <<>>
    /\ ng_skipped = 0
    /\ ng_pc = "loop"
    /\ MnIdle
    /\ PrIdle
    /\ RcIdle

\* one iteration that reaches `yield result`
NgramsYield ==
    /\ ng_pc = "loop"
    /\ ng_i < ngramsRange(ng_bits, ng_n)
    /\ LET result == normalize(join(slice(ng_bits, ng_i, ng_n)))
       IN  /\ strip(result) # ""
           /\ ng_out' = Append(ng_out, result)
    /\ ng_i' = ng_i + 1
    /\ UNCHANGED <<ng_n, ng_bits, ng_skipped, ng_pc>>
    /\ UNCHANGED <<mnVars, prVars, rcVars>>

\* one iteration that takes `continue`
NgramsSkip ==
    /\ ng_pc = "loop"
    /\ ng_i < ngramsRange(ng_bits, ng_n)
    /\ strip(normalize(join(slice(ng_bits, ng_i, ng_n)))) = ""
    /\ ng_skipped' = ng_skipped + 1
    /\ ng_i' = ng_i + 1
    /\ UNCHANGED <<ng_n, ng_bits, ng_out, ng_pc>>
    /\ UNCHANGED <<mnVars, prVars, rcVars>>

\* the xrange is exhausted: the generator returns
NgramsDone ==
    /\ ng_pc = "loop"
    /\ ng_i >= ngramsRange(ng_bits, ng_n)
    /\ ng_pc' = "done"
    /\ UNCHANGED <<ng_n, ng_bits, ng_i, ng_out, ng_skipped>>
    /\ UNCHANGED <<mnVars, prVars, rcVars>>

NgNext == NgramsYield \/ NgramsSkip \/ NgramsDone

SpecNgrams == NgInit /\ [][NgNext]_vars

----------------------------------------------------------------------------
(* manufacturerNormalizer *)

\* the nested helper matches(product_bit, listing_bits)
matches(product_bit, listing_bits) ==
    \E k \in 1..Len(listing_bits) : startswith(listing_bits[k], product_bit)

\* the uppercased product manufacturer, with the FUJIFILM truncation
ucase_product_manufacturer(product_manufacturer) ==
    IF upper(product_manufacturer) = "FUJIFILM" THEN "FUJI"
    ELSE upper(product_manufacturer)

\* the condition of the inner loop's if
listingMatchesAnyBit(product_manufacturer, listing_manufacturer) ==
    LET bits == split(ucase_product_manufacturer(product_manufacturer))
    IN  \E k \in 1..Len(bits) : matches(bits[k], split(listing_manufacturer))

\* the listing manufacturers one pass of the outer loop adds to `processed`
processed(product_manufacturer, listing_manufacturers) ==
    {lm \in listing_manufacturers : listingMatchesAnyBit(product_manufacturer, lm)}

\* results after one pass of the outer loop
resultsAfter(results, product_manufacturer, done) ==
    [k \in (DOMAIN results) \cup done |->
        IF k \in done THEN product_manufacturer ELSE results[k]]

\* listing_manufacturers = set(m.upper() for m in listing_manufacturers)
upperSet(listing_manufacturers) == {upper(m) : m \in listing_manufacturers}

\* the whole function, the outer loop visiting the product manufacturers in
\* the order of the sequence `order`
RECURSIVE normalizerLoop(_, _, _)
normalizerLoop(order, listing_manufacturers, results) ==
    IF order = <<>> THEN results
    ELSE LET done == processed(Head(order), listing_manufacturers)
         IN  normalizerLoop(Tail(order), listing_manufacturers \ done,
                            resultsAfter(results, Head(order), done))

manufacturerNormalizer(listing_manufacturers, order) ==
    normalizerLoop(order, upperSet(listing_manufacturers), EmptyMap)

\* every order in which a loop can visit the elements of the set S
Orders(S) ==
    {f \in [1..Cardinality(S) -> S] : \A x \in S : \E k \in DOMAIN f : f[k] = x}

ListingManufacturerPool ==
    {"Canon", "Canon Canada", "Nikon", "Sony", "Konica Minolta", "Minolta",
     "FUJIFILM"}

ProductManufacturerPool ==
    {"Canon", "Nikon", "Konica Minolta", "Minolta", "Fujifilm"}

MnInit ==
    /\ mn_listing_arg \in SUBSET ListingManufacturerPool
    /\ mn_product_arg \in
          {P \in SUBSET ProductManufacturerPool : Cardinality(P) <= MaxProductManus}
    /\ mn_todo = {}
    /\ mn_listing_manufacturers = {}
    /\ mn_results = EmptyMap
    /\ mn_pc = "start"
    /\ NgIdle
    /\ PrIdle
    /\ RcIdle

\* lines 20-26: the two sets and the empty results dict
MnStart ==
    /\ mn_pc = "start"
    /\ mn_todo' = mn_product_arg
    /\ mn_listing_manufacturers' = upperSet(mn_listing_arg)
    /\ mn_results' = EmptyMap
    /\ mn_pc' = "loop"
    /\ UNCHANGED <<mn_listing_arg, mn_product_arg>>
    /\ UNCHANGED <<ngVars, prVars, rcVars>>

\* one pass of `for product_manufacturer in product_manufacturers`; a set's
\* iteration order is unspecified, so the pass may take any unvisited element
MnIterate ==
    /\ mn_pc = "loop"
    /\ \E product_manufacturer \in mn_todo :
          LET done == processed(product_manufacturer, mn_listing_manufacturers)
          IN  /\ mn_results' = resultsAfter(mn_results, product_manufacturer, done)
              /\ mn_listing_manufacturers' = mn_listing_manufacturers \ done
              /\ mn_todo' = mn_todo \ {product_manufacturer}
    /\ UNCHANGED <<mn_listing_arg, mn_product_arg, mn_pc>>
    /\ UNCHANGED <<ngVars, prVars, rcVars>>

\* return results
MnReturn ==
    /\ mn_pc = "loop"
    /\ mn_todo = {}
    /\ mn_pc' = "done"
    /\ UNCHANGED <<mn_listing_arg, mn_product_arg, mn_todo,
                   mn_listing_manufacturers, mn_results>>
    /\ UNCHANGED <<ngVars, prVars, rcVars>>

MnNext == MnStart \/ MnIterate \/ MnReturn

SpecNormalizer == MnInit /\ [][MnNext]_vars

----------------------------------------------------------------------------
(* getCost and pruneByCost *)

\* exchangerates.json, in quarters: a cost is a number of quarter dollars
currencyRatios == [USD |-> 4, CAD |-> 3]

getCost(listing) == listing.price * currencyRatios[listing.currency]

\* costs = map(getCost, listings)
costsOf(matched) == [k \in 1..Len(matched) |-> getCost(matched[k])]

\* sum(costs)
RECURSIVE sum(_)
sum(costs) == IF costs = <<>> THEN 0 ELSE Head(costs) + sum(Tail(costs))

\* len(costs)^2 * sum((cost - mean)**2 for cost in costs), with
\* mean = sum(costs) / len(costs): each term is (len*cost - sum)^2
sumSqDev(costs) ==
    sum([k \in 1..Len(costs) |->
            (Len(costs) * costs[k] - sum(costs)) * (Len(costs) * costs[k] - sum(costs))])

\* sd < mean * sd_threshold, with sd = sqrt(sum((cost-mean)**2)/(len-1)):
\* both sides are >= 0, so the squares compare the same way, and times
\* len^2 * (len-1) * den^2 they are integers.  threshold = <<num, den>>
sdBelowThresholdNever(costs, threshold) == FALSE

sdBelowThreshold(costs, threshold) ==
    sumSqDev(costs) * threshold[2] * threshold[2]
        < sum(costs) * sum(costs) * threshold[1] * threshold[1] * (Len(costs) - 1)

\* mean - cost < sd * sanity_factor, the condition of the list comprehension;
\* factor = <<num, den>>.  With d = (sum - len*cost) * den the condition is
\* d < sqrt(sumSqDev/(len-1)) * num
keepsListing(cost, costs, factor) ==
    LET d == (sum(costs) - Len(costs) * cost) * factor[2]
    IN  \/ d < 0
        \/ d * d * (Len(costs) - 1) < sumSqDev(costs) * factor[1] * factor[1]

\* the surviving listings in reverse order
RECURSIVE keptFromReversed(_, _, _, _)
keptFromReversed(matched, costs, factor, k) ==
    IF k > Len(matched) THEN <<>>
    ELSE keptFromReversed(matched, costs, factor, k + 1)
         \o (IF keepsListing(costs[k], costs, factor) THEN <<matched[k]>> ELSE <<>>)

\* [listing for (listing, cost) in zip(listings, costs) if ...]
RECURSIVE keptFrom(_, _, _, _)
keptFrom(matched, costs, factor, k) ==
    IF k > Len(matched) THEN <<>>
    ELSE (IF keepsListing(costs[k], costs, factor) THEN <<matched[k]>> ELSE <<>>)
         \o keptFrom(matched, costs, factor, k + 1)

\* the body of pruneByCost's loop for one product: its list afterwards
prunedListings(matched, factor, threshold) ==
    IF Len(matched) < 3 THEN matched
    ELSE IF sdBelowThreshold(costsOf(matched), threshold) THEN matched
    ELSE keptFrom(matched, costsOf(matched), factor, 1)

\* the products are visited one after the other and each visit reads and
\* writes only that product's entry, so the loop is this map
pruneByCost(results, factor, threshold) ==
    [product \in DOMAIN results |-> prunedListings(results[product], factor, threshold)]

ProductKeys == {"Nikon D90", "Canon SX130"}

\* the listings a match result is filled from: <<price, currency>>
PrunePool == {<<10, "USD">>, <<14, "USD">>, <<20, "CAD">>, <<18, "USD">>}

\* the (sanity_factor, sd_threshold) pairs of the test and of a stricter run
PruneParams ==
    {<< <<3, 2>>, <<1, 10>> >>, << <<3, 2>>, <<1, 4>> >>,
     << <<5, 2>>, <<1, 4>> >>,  << <<1, 1>>, <<1, 10>> >>}

\* listing k of a match result: a dict with a price and a currency; id is
\* the identity of the dict object
listingOf(k, item) == [id |-> k, price |-> item[1], currency |-> item[2]]

\* the listings of `all` that `owner` gives to product, in order
RECURSIVE assigned(_, _, _, _)
assigned(all, owner, product, k) ==
    IF k > Len(all) THEN <<>>
    ELSE (IF owner[k] = product THEN <<all[k]>> ELSE <<>>)
         \o assigned(all, owner, product, k + 1)

\* the dict that holds the listings of `all` under their owners
resultsOf(all, owner) ==
    [product \in {owner[k] : k \in 1..Len(all)} |-> assigned(all, owner, product, 1)]

\* the prices of test_pruneByCosts
TestPrices == <<100, 105, 95, 103, 97, 125, 60>>

TestMatchResults ==
    [product \in {"Nikon D90"} |->
        [k \in 1..Len(TestPrices) |-> listingOf(k, <<TestPrices[k], "USD">>)]]

PrInit ==
    /\ \/ \E n \in 0..MaxPruneListings :
             \E items \in [1..n -> PrunePool], owner \in [1..n -> ProductKeys] :
                match_results = resultsOf([k \in 1..n |-> listingOf(k, items[k])], owner)
       \/ match_results = TestMatchResults
    /\ \E params \in PruneParams :
          /\ sanity_factor = params[1]
          /\ sd_threshold = params[2]
    /\ pr_before = match_results
    /\ pr_calls = 0
    /\ NgIdle
    /\ MnIdle
    /\ RcIdle

\* one call of pruneByCost(match_results, sanity_factor, sd_threshold)
PruneByCost ==
    /\ pr_calls < MaxPruneCalls
    /\ pr_before' = match_results
    /\ match_results' = pruneByCost(match_results, sanity_factor, sd_threshold)
    /\ pr_calls' = pr_calls + 1
    /\ UNCHANGED <<sanity_factor, sd_threshold>>
    /\ UNCHANGED <<ngVars, mnVars, rcVars>>

PrNext == PruneByCost

SpecPrune == PrInit /\ [][PrNext]_vars

----------------------------------------------------------------------------
(* The Reconciler *)

\* round(1000 * math.log(k)) for k = 1 .. 16
LnMilli ==
    <<0, 693, 1099, 1386, 1609, 1792, 1946, 2079,
      2197, 2303, 2398, 2485, 2565, 2639, 2708, 2773>>

\* -log(count / total), in thousandths
negLog(count, total) == LnMilli[total] - LnMilli[count]

\* Product(p['product_name'], p['manufacturer'], p['model'],
\*         p['family'] if 'family' in p else '', p['announced-date'])
Product(p) ==
    [product_name |-> p.product_name, manufacturer |-> p.manufacturer,
     model |-> p.model,
     family |-> IF "family" \in DOMAIN p THEN p.family ELSE "",
     announced_date |-> p.announced_date]

\* the 1-grams and then the 2-grams of a title, as the two nested loops
\* `for n in xrange(1,3): for word in ngrams(n, title.split())` visit them
titleWords(title) == ngrams(1, split(title)) \o ngrams(2, split(title))

\* word_frequency[word] += 1 on a defaultdict(int)
increment(frequency, word) ==
    IF word \in DOMAIN frequency
    THEN [frequency EXCEPT ![word] = @ + 1]
    ELSE frequency @@ (word :> 1)

RECURSIVE countWords(_, _)
countWords(frequency, words) ==
    IF words = <<>> THEN frequency
    ELSE countWords(increment(frequency, Head(words)), Tail(words))

\* the same loop stopping one listing early
RECURSIVE wordFrequencySkipLast(_)
wordFrequencySkipLast(ls) ==
    IF Len(ls) <= 1 THEN EmptyMap
    ELSE countWords(wordFrequencySkipLast(SubSeq(ls, 1, Len(ls) - 1)),
                    titleWords(ls[Len(ls) - 1].title))

\* the loop of buildListingFrequencies: word_frequency once every listing
\* of ls has been visited, in order
RECURSIVE wordFrequency(_)
wordFrequency(ls) ==
    IF ls = <<>> THEN EmptyMap
    ELSE countWords(wordFrequency(SubSeq(ls, 1, Len(ls) - 1)),
                    titleWords(ls[Len(ls)].title))

\* the dict buildListingFrequencies returns
listWordScore(frequency, num_listings) ==
    [word \in DOMAIN frequency |-> negLog(frequency[word], num_listings)]

buildListingFrequencies(ls) == listWordScore(wordFrequency(ls), Len(ls))

\* word_map[word].append(product) on a defaultdict(list)
appendTo(word_map, word, product) ==
    IF word \in DOMAIN word_map
    THEN [word_map EXCEPT ![word] = Append(@, product)]
    ELSE word_map @@ (word :> <<product>>)

\* the loop that fills word_map from one manufacturer's products
RECURSIVE wordMap(_)
wordMap(prods) ==
    IF prods = <<>> THEN EmptyMap
    ELSE LET product == prods[Len(prods)]
             before == wordMap(SubSeq(prods, 1, Len(prods) - 1))
         IN  appendTo(appendTo(before, normalize(product.family), product),
                      normalize(product.model), product)

\* products_by_manufacturer[manufacturer]
productsOf(prods, manufacturer) ==
    SelectSeq(prods, LAMBDA product : product.manufacturer = manufacturer)

\* words_by_manufacturer: manufacturer -> (word_map, word score dict)
buildProductFrequencies(prods) ==
    [manufacturer \in {prods[k].manufacturer : k \in 1..Len(prods)} |->
        LET mine == productsOf(prods, manufacturer)
            word_map == wordMap(mine)
        IN  [word_map |-> word_map,
             word_score |-> [word \in DOMAIN word_map |->
                                negLog(Len(word_map[word]), Len(mine))]]]

\* isCamera's p, in tenths; cost is in quarter dollars
cameraConfidence(listing) ==
    LET cost == getCost(listing)
        title == upper(listing.title)
        p0 == IF cost < 30 * 4 THEN 1
              ELSE IF cost < 50 * 4 THEN 3
              ELSE IF cost < 100 * 4 THEN 5
              ELSE 10
        p1 == IF contains(title, "MP") \/ contains(title, "MEGAPIXEL")
              THEN p0 + 5 ELSE p0
        p2 == IF contains(title, "OPTICAL ZOOM") THEN p1 + 3 ELSE p1
        p3 == IF contains(title, " FOR ") THEN p2 - 2 ELSE p2
    IN  IF contains(title, " WITH ") THEN p3 + 2 ELSE p3

isCamera(listing) == cameraConfidence(listing) >= 5

\* results[product] += amount on a defaultdict(float)
addScore(results, product, amount) ==
    IF product \in DOMAIN results
    THEN [results EXCEPT ![product] = @ + amount]
    ELSE results @@ (product :> amount)

\* `for product in word_products: if product.manufacturer == manufacturer: ...`
RECURSIVE addToProducts(_, _, _, _)
addToProducts(results, word_products, manufacturer, amount) ==
    IF word_products = <<>> THEN results
    ELSE addToProducts(
            IF Head(word_products).manufacturer = manufacturer
            THEN addScore(results, Head(word_products), amount)
            ELSE results,
            Tail(word_products), manufacturer, amount)

\* the two nested loops of findCandidateProducts over the title's words;
\* scores are in millionths
RECURSIVE scoreWords(_, _, _, _, _)
scoreWords(results, words, manufacturer, table, word_scores) ==
    IF words = <<>> THEN results
    ELSE LET word == Head(words)
             dampener == IF word \in DOMAIN word_scores THEN word_scores[word] ELSE 1000
         IN  scoreWords(
                IF word \in DOMAIN table.word_map
                THEN addToProducts(results, table.word_map[word], manufacturer,
                                   table.word_score[word] * dampener)
                ELSE results,
                Tail(words), manufacturer, table, word_scores)

\* the condition of findCandidateProducts' early return
noCandidates(listing, mmap) ==
    ~isCamera(listing) \/ upper(listing.manufacturer) \notin DOMAIN mmap

findCandidateProducts(listing, mmap, word_scores, by_manufacturer) ==
    IF noCandidates(listing, mmap) THEN EmptyMap
    ELSE LET manufacturer == mmap[upper(listing.manufacturer)]
         IN  scoreWords(EmptyMap, titleWords(listing.title), manufacturer,
                        by_manufacturer[manufacturer], word_scores)

\* hits[-1] of the hits sorted by score: a candidate no other one outscores
topHit(results) ==
    CHOOSE product \in DOMAIN results :
        \A other \in DOMAIN results : results[other] <= results[product]

\* the score of hits[-2]: the best score among the other candidates
otherScore(results) ==
    LET rest == DOMAIN results \ {topHit(results)}
    IN  results[CHOOSE product \in rest :
                    \A other \in rest : results[other] <= results[product]]

\* score > score_threshold, the threshold in whole points
aboveThresholdOrEqual(score, threshold) == score >= threshold * 1000000

aboveThreshold(score, threshold) == score > threshold * 1000000

\* score - other_score < 2
tooClose(score, other_score) == score - other_score < 2 * 1000000

\* the branch one pass of reconcile's loop takes for the hits `results`
reconcileBranch(results, threshold) ==
    IF results = EmptyMap THEN "no-hits"
    ELSE LET score == results[topHit(results)]
         IN  IF ~aboveThreshold(score, threshold) THEN "low-score"
             ELSE IF /\ Cardinality(DOMAIN results) > 1
                     /\ tooClose(score, otherScore(results))
                  THEN "continue"
                  ELSE "append"

\* the product records of a catalog; the last has no 'family' key
CanonCatalog ==
    << [product_name |-> "Canon_PowerShot_SX130", manufacturer |-> "Canon",
        model |-> "SX130", family |-> "PowerShot", announced_date |-> "2010"],
       [product_name |-> "Canon_Elph_A10", manufacturer |-> "Canon",
        model |-> "A10", family |-> "Elph", announced_date |-> "2010"],
       [product_name |-> "Canon_EOS_D5", manufacturer |-> "Canon",
        model |-> "D5", family |-> "EOS", announced_date |-> "2010"],
       [product_name |-> "Canon_IXUS_85", manufacturer |-> "Canon",
        model |-> "85", family |-> "IXUS", announced_date |-> "2010"],
       [product_name |-> "Canon_Kiss_X4", manufacturer |-> "Canon",
        model |-> "X4", family |-> "Kiss", announced_date |-> "2010"],
       [product_name |-> "Nikon_D90", manufacturer |-> "Nikon",
        model |-> "D90", announced_date |-> "2010"] >>

\* a catalog in which one listing manufacturer matches two canonical ones
MinoltaCatalog ==
    << [product_name |-> "Konica_Minolta_X1", manufacturer |-> "Konica Minolta",
        model |-> "X1", family |-> "Dimage", announced_date |-> "2010"],
       [product_name |-> "Minolta_X-1", manufacturer |-> "Minolta",
        model |-> "X-1", family |-> "Dimage", announced_date |-> "2010"] >>

Catalogs == {<<>>, CanonCatalog, MinoltaCatalog}

ListingPool ==
    { [title |-> "PowerShot SX130 Elph 12MP", manufacturer |-> "Canon Canada",
       currency |-> "CAD", price |-> 200],
      [title |-> "Elph A10 12 MP", manufacturer |-> "Canon",
       currency |-> "USD", price |-> 150],
      [title |-> "Elph battery for A10", manufacturer |-> "Canon",
       currency |-> "USD", price |-> 20],
      [title |-> "D90 Body - D90", manufacturer |-> "Nikon",
       currency |-> "USD", price |-> 500],
      [title |-> "Dimage X1 5MP", manufacturer |-> "Minolta",
       currency |-> "USD", price |-> 120],
      [title |-> "Sony T99", manufacturer |-> "Sony",
       currency |-> "USD", price |-> 300] }

\* the values of --score-threshold tried; 35 is the default
Thresholds == {0, 2, 35}

\* the listing dicts of a run: entry k is the dict object with identity k
withIds(items) == [k \in 1..Len(items) |-> items[k] @@ [id |-> k]]

unannotated == [no_manufacturer |-> "unset", no_hits |-> "unset"]

Init ==
    /\ \E n \in 0..MaxListings :
          \E items \in [1..n -> ListingPool] : listings = withIds(items)
    /\ products \in Catalogs
    /\ score_threshold \in Thresholds
    /\ manufacturer_map = EmptyMap
    /\ word_frequency = EmptyMap
    /\ list_word_score = EmptyMap
    /\ words_by_manufacturer = EmptyMap
    /\ idx = 0
    /\ misses = <<>>
    /\ pc = "main"
    /\ mn_order = <<>>
    /\ annotations = [k \in 1..Len(listings) |-> unannotated]
    /\ candidates = <<>>
    /\ match_results = EmptyMap
    /\ sanity_factor = <<3, 2>>
    /\ sd_threshold = <<1, 10>>
    /\ pr_before = EmptyMap
    /\ pr_calls = 0
    /\ NgIdle
    /\ MnIdle

\* Reconciler.__init__; the set of product manufacturers is iterated in an
\* order the language does not fix
Construct ==
    /\ pc = "main"
    /\ products' = [k \in 1..Len(products) |-> Product(products[k])]
    /\ \E order \in Orders({products[k].manufacturer : k \in 1..Len(products)}) :
          /\ mn_order' = order
          /\ manufacturer_map' =
                manufacturerNormalizer(
                    {listings[k].manufacturer : k \in 1..Len(listings)}, order)
    /\ word_frequency' = wordFrequency(listings)
    /\ list_word_score' = buildListingFrequencies(listings)
    /\ words_by_manufacturer' = buildProductFrequencies(products')
    /\ pc' = "constructed"
    /\ UNCHANGED <<listings, score_threshold, idx, misses, annotations, candidates>>
    /\ UNCHANGED <<ngVars, mnVars, prVars>>

\* reconcile is entered: the empty match_results and misses
ReconcileBegin ==
    /\ pc = "constructed"
    /\ match_results' = EmptyMap
    /\ misses' = <<>>
    /\ idx' = 0
    /\ pc' = "loop"
    /\ UNCHANGED <<listings, products, manufacturer_map, word_frequency,
                   list_word_score, words_by_manufacturer, score_threshold,
                   mn_order, annotations, candidates>>
    /\ UNCHANGED <<ngVars, mnVars, sanity_factor, sd_threshold, pr_before, pr_calls>>

\* the listing of the current pass and what findCandidateProducts returns
currentListing == listings[idx + 1]

currentResults ==
    findCandidateProducts(currentListing, manufacturer_map, list_word_score,
                          words_by_manufacturer)

\* the key findCandidateProducts sets on the listing when it returns early
noteManufacturer(notes) ==
    IF noCandidates(currentListing, manufacturer_map)
    THEN [notes EXCEPT ![idx + 1].no_manufacturer =
            IF upper(currentListing.manufacturer) \notin DOMAIN manufacturer_map
            THEN "True" ELSE "False"]
    ELSE notes

\* what every pass of reconcile's loop does besides its branch
Pass ==
    /\ pc = "loop"
    /\ idx < Len(listings)
    /\ idx' = idx + 1
    /\ candidates' = Append(candidates, currentResults)
    /\ UNCHANGED <<listings, products, manufacturer_map, word_frequency,
                   list_word_score, words_by_manufacturer, score_threshold,
                   mn_order, pc>>
    /\ UNCHANGED <<ngVars, mnVars, sanity_factor, sd_threshold, pr_before, pr_calls>>

\* a pass that reaches match_results[product.product_name].append(listing)
ReconcileMatch ==
    /\ Pass
    /\ reconcileBranch(currentResults, score_threshold) = "append"
    /\ match_results' =
          appendTo(match_results, topHit(currentResults).product_name, currentListing)
    /\ annotations' = noteManufacturer(annotations)
    /\ UNCHANGED misses

\* a pass that takes `continue`: two prospects whose scores differ by less than 2
ReconcileTooClose ==
    /\ Pass
    /\ reconcileBranch(currentResults, score_threshold) = "continue"
    /\ annotations' = noteManufacturer(annotations)
    /\ UNCHANGED <<match_results, misses>>

\* a pass whose best score is not above the threshold
ReconcileLowScore ==
    /\ Pass
    /\ reconcileBranch(currentResults, score_threshold) = "low-score"
    /\ misses' = Append(misses, currentListing)
    /\ annotations' = noteManufacturer(annotations)
    /\ UNCHANGED match_results

\* a pass with no hits
ReconcileNoHits ==
    /\ Pass
    /\ reconcileBranch(currentResults, score_threshold) = "no-hits"
    /\ annotations' = [noteManufacturer(annotations) EXCEPT ![idx + 1].no_hits = "True"]
    /\ misses' = Append(misses, currentListing)
    /\ UNCHANGED match_results

\* return match_results, misses
ReconcileReturn ==
    /\ pc = "loop"
    /\ idx = Len(listings)
    /\ pc' = "reconciled"
    /\ UNCHANGED <<listings, products, manufacturer_map, word_frequency,
                   list_word_score, words_by_manufacturer, score_threshold,
                   idx, misses, mn_order, annotations, candidates>>
    /\ UNCHANGED <<ngVars, mnVars, prVars>>

\* main's reconciler.pruneByCost(match_results, ...)
MainPrune ==
    /\ pc = "reconciled"
    /\ pr_before' = match_results
    /\ match_results' = pruneByCost(match_results, sanity_factor, sd_threshold)
    /\ pr_calls' = pr_calls + 1
    /\ pc' = "pruned"
    /\ UNCHANGED <<listings, products, manufacturer_map, word_frequency,
                   list_word_score, words_by_manufacturer, score_threshold,
                   idx, misses, mn_order, annotations, candidates>>
    /\ UNCHANGED <<ngVars, mnVars, sanity_factor, sd_threshold>>

Next ==
    \/ Construct
    \/ ReconcileBegin
    \/ ReconcileMatch
    \/ ReconcileTooClose
    \/ ReconcileLowScore
    \/ ReconcileNoHits
    \/ ReconcileReturn
    \/ MainPrune

Spec == Init /\ [][Next]_vars

----------------------------------------------------------------------------
(* C1, C2, C7, C10 *)

\* how often the listing dict with identity id occurs in the list ls
Occurrences(ls, id) == Cardinality({k \in 1..Len(ls) : ls[k].id = id})

\* how often it occurs in the match list kept under the product name
MatchedUnder(name, id) ==
    IF name \in DOMAIN match_results THEN Occurrences(match_results[name], id) ELSE 0

ProductNames == {products[k].product_name : k \in 1..Len(products)}

\* the best score among the candidates c
BestScore(c) == CHOOSE v \in {c[q] : q \in DOMAIN c} : \A q \in DOMAIN c : c[q] <= v

\* the top score of c is strictly greater than the threshold and, if there
\* is a second candidate, at least 2 above every other candidate's score
Accepted(c, threshold) ==
    /\ BestScore(c) > threshold * 1000000
    /\ \/ Cardinality(DOMAIN c) = 1
       \/ \E top \in DOMAIN c :
             /\ c[top] = BestScore(c)
             /\ \A q \in DOMAIN c \ {top} : BestScore(c) - c[q] >= 2 * 1000000

\* C1: a listing with a non-empty candidate set is appended to the match
\* list of its top-scoring product iff the top score is strictly greater
\* than score_threshold and (there is no second candidate or the top score
\* is at least 2 above the second-best); otherwise it is appended to no
\* list; it is never appended to more than one list.
C1_AppendedIffAccepted ==
    pc \in {"loop", "reconciled"} =>
        \A k \in 1..Len(candidates) :
            candidates[k] # EmptyMap =>
                \A name \in ProductNames :
                    MatchedUnder(name, listings[k].id) =
                        IF /\ Accepted(candidates[k], score_threshold)
                           /\ \E top \in DOMAIN candidates[k] :
                                 /\ candidates[k][top] = BestScore(candidates[k])
                                 /\ top.product_name = name
                        THEN 1 ELSE 0

\* reconcile has returned having appended a listing that had two candidates
C1_Witness ==
    /\ pc = "reconciled"
    /\ \E k \in 1..Len(candidates) :
          /\ Cardinality(DOMAIN candidates[k]) >= 2
          /\ \E name \in DOMAIN match_results :
                Occurrences(match_results[name], listings[k].id) = 1

\* how often the listing occurs in all the match lists together
TimesMatched(id) ==
    Cardinality({<<name, k>> \in (DOMAIN match_results) \X (1..Len(listings)) :
                    /\ k <= Len(match_results[name])
                    /\ match_results[name][k].id = id})

TitleTokens(title) ==
    {ngrams(1, split(title))[k] : k \in 1..Len(ngrams(1, split(title)))}
        \cup {ngrams(2, split(title))[k] : k \in 1..Len(ngrams(2, split(title)))}

\* the number of listings whose title contains the token
DocumentFrequency(word) ==
    Cardinality({k \in 1..Len(listings) : word \in TitleTokens(listings[k].title)})

\* C10: the count of every token of the listing-token table is the number of
\* listings whose title contains it, so it is at most the number of
\* listings and the token's weight -log(count/total) is not negative.
C10_DocumentFrequency ==
    pc # "main" =>
        \A word \in DOMAIN word_frequency :
            /\ word_frequency[word] = DocumentFrequency(word)
            /\ word_frequency[word] <= Len(listings)
            /\ list_word_score[word] >= 0

\* the listings in the order perm: entry k is listing perm[k]
Permuted(perm) == [k \in 1..Len(listings) |-> listings[perm[k]]]

\* what reconcile did with the listing: the product name it was appended
\* under, a miss, or neither
Selected(id) ==
    IF \E name \in DOMAIN match_results : Occurrences(match_results[name], id) > 0
    THEN CHOOSE name \in DOMAIN match_results : Occurrences(match_results[name], id) > 0
    ELSE IF Occurrences(misses, id) > 0 THEN "miss" ELSE "neither"

\* what reconcile does with a listing whose candidates are c
SelectedFor(c) ==
    LET branch == reconcileBranch(c, score_threshold)
    IN  IF branch = "append" THEN topHit(c).product_name
        ELSE IF branch = "continue" THEN "neither" ELSE "miss"

\* C7: a Reconciler built over the same products and any permutation of the
\* listings computes for every listing the candidate scores this run
\* computed, and reconcile selects the same product or miss for it.
C7_OrderIndependent ==
    pc = "reconciled" =>
        \A perm \in Orders(1..Len(listings)) :
            LET permuted == Permuted(perm)
                mmap == manufacturerNormalizer(
                            {permuted[k].manufacturer : k \in 1..Len(permuted)},
                            mn_order)
                scores == buildListingFrequencies(permuted)
            IN  \A k \in 1..Len(permuted) :
                    LET c == findCandidateProducts(permuted[k], mmap, scores,
                                                   words_by_manufacturer)
                    IN  /\ c = candidates[perm[k]]
                        /\ SelectedFor(c) = Selected(permuted[k].id)

\* a run over two different listings in which one listing was appended to
\* a product and one has several scored candidates
C7_Witness ==
    /\ pc = "reconciled"
    /\ Len(listings) = 2
    /\ listings[1].title # listings[2].title
    /\ \E k \in 1..2 : Cardinality(DOMAIN candidates[k]) >= 2
    /\ \E k \in 1..2 : Selected(listings[k].id) \in ProductNames

----------------------------------------------------------------------------
(* C3, C4 *)

\* C3: for fixed listing and canonical manufacturers, manufacturerNormalizer
\* returns the same map whatever order the canonical manufacturers are
\* iterated in.
C3_OrderIndependent ==
    mn_pc = "done" =>
        \A order \in Orders(mn_product_arg) :
            mn_results = manufacturerNormalizer(mn_listing_arg, order)

\* some whitespace token of the canonical manufacturer P, compared in
\* uppercase with FUJIFILM read as FUJI, is a prefix of some token of L
TokenPrefix(P, L) ==
    LET ptoks == split(IF upper(P) = "FUJIFILM" THEN "FUJI" ELSE upper(P))
        ltoks == split(upper(L))
    IN  \E a \in 1..Len(ptoks) : \E b \in 1..Len(ltoks) :
            startswith(ltoks[b], ptoks[a])

\* C4: the returned map's keys are the raw listing manufacturer strings in
\* their original casing; a raw string L is a key iff some canonical
\* manufacturer has a token that is a prefix of a token of L, and the value
\* of L is such a canonical manufacturer in catalog casing.
C4_RawCasedKeys ==
    mn_pc = "done" =>
        /\ DOMAIN mn_results \subseteq mn_listing_arg
        /\ \A L \in mn_listing_arg :
              (L \in DOMAIN mn_results) <=>
                  (\E P \in mn_product_arg : TokenPrefix(P, L))
        /\ \A L \in DOMAIN mn_results :
              /\ mn_results[L] \in mn_product_arg
              /\ TokenPrefix(mn_results[L], L)

----------------------------------------------------------------------------
(* C5, C6, C8 *)

\* the sample standard deviation of costs is less than mean * threshold
LowSpread(costs, threshold) ==
    LET n == Len(costs)
        T == sum(costs)
    IN  sumSqDev(costs) * threshold[2] * threshold[2]
            < T * T * threshold[1] * threshold[1] * (n - 1)

\* cost is more than factor standard deviations below the mean of costs:
\* mean - cost > factor * sd
FarBelowMean(cost, costs, factor) ==
    LET n == Len(costs)
        d == (sum(costs) - n * cost) * factor[2]
    IN  d > 0 /\ d * d * (n - 1) > sumSqDev(costs) * factor[1] * factor[1]

\* the listings of `listings` that are not far below the mean, in order
NotFarBelow(matched, factor) ==
    SelectSeq(matched,
              LAMBDA l : ~FarBelowMean(getCost(l), costsOf(matched), factor))

\* C5: a product with fewer than 3 listings, or whose costs have a sample
\* standard deviation below mean * sd_threshold, keeps its list as it was;
\* otherwise exactly the listings with mean - cost > sanity_factor * sd are
\* removed, so a listing exactly at that distance is retained.
C5_RemovesExactlyFarBelow ==
    pr_calls >= 1 =>
        \A product \in DOMAIN pr_before :
            LET old == pr_before[product]
            IN  match_results[product] =
                    IF Len(old) < 3 \/ LowSpread(costsOf(old), sd_threshold)
                    THEN old
                    ELSE NotFarBelow(old, sanity_factor)

\* s is t with some elements left out, the rest in the same order
RECURSIVE IsSubSeq(_, _)
IsSubSeq(s, t) ==
    IF s = <<>> THEN TRUE
    ELSE IF t = <<>> THEN FALSE
    ELSE IF Head(s) = Head(t) THEN IsSubSeq(Tail(s), Tail(t))
    ELSE IsSubSeq(s, Tail(t))

IdsUnder(results, product) ==
    {results[product][k].id : k \in 1..Len(results[product])}

\* C8: a call of pruneByCost leaves the set of product keys as it was, makes
\* each product's list a subsequence of what it was, adds no listing, and
\* puts no listing under a product other than the one that held it.
C8_OnlyRemoves ==
    pr_calls >= 1 =>
        /\ DOMAIN match_results = DOMAIN pr_before
        /\ \A product \in DOMAIN match_results :
              /\ IsSubSeq(match_results[product], pr_before[product])
              /\ \A other \in DOMAIN pr_before \ {product} :
                    IdsUnder(match_results, product) \cap IdsUnder(pr_before, other) = {}

\* a call that removed a listing from one product and kept two in order,
\* while another product held listings too
C8_Witness ==
    /\ pr_calls = 1
    /\ Cardinality(DOMAIN match_results) = 2
    /\ \E product \in DOMAIN match_results :
          /\ Len(match_results[product]) < Len(pr_before[product])
          /\ Len(match_results[product]) >= 2

\* C6 as stated: a second application of pruneByCost with the same
\* parameters removes no listing from any product.
C6_Idempotent ==
    pr_calls = 2 => match_results = pr_before

\* C6 amended: a second application removes nothing from a product whose
\* list after the first application has fewer than 3 listings or a cost
\* spread below the threshold.
C6_SecondPassNoOpWhenGuarded ==
    pr_calls = 2 =>
        \A product \in DOMAIN pr_before :
            (\/ Len(pr_before[product]) < 3
             \/ LowSpread(costsOf(pr_before[product]), sd_threshold))
            => match_results[product] = pr_before[product]

\* a second application on a list of three or more listings that the
\* first application left with a spread below the threshold
C6_Witness ==
    /\ pr_calls = 2
    /\ \E product \in DOMAIN pr_before :
          /\ Len(pr_before[product]) >= 3
          /\ LowSpread(costsOf(pr_before[product]), sd_threshold)
          /\ match_results[product] = pr_before[product]

----------------------------------------------------------------------------
(* C9 *)

\* s with spaces, underscores and hyphens dropped and every other character
\* uppercased, one character at a time
RECURSIVE StrippedUpper(_)
StrippedUpper(s) ==
    IF Len(s) = 0 THEN ""
    ELSE (IF CharAt(s, 1) \in {" ", "_", "-"} THEN "" ELSE upperChar(CharAt(s, 1)))
         \o StrippedUpper(Tail(s))

\* words[lo] words[lo+1] ... words[hi] written one after the other (1-based)
RECURSIVE WindowConcat(_, _, _)
WindowConcat(words, lo, hi) ==
    IF lo > hi THEN "" ELSE words[lo] \o WindowConcat(words, lo + 1, hi)

\* the token of the window that starts at the 0-based index i
WindowToken(i) == StrippedUpper(WindowConcat(ng_bits, i + 1, i + ng_n))

WindowCount == Max(0, Len(ng_bits) - ng_n + 1)

KeptWindows == {i \in 0..(WindowCount - 1) : WindowToken(i) # ""}

====
